---------------------------- MODULE Spec2Model ----------------------------
(***************************************************************************)
(* Model of api-key-guardian: the APIKeyGuardian class of src/index.js     *)
(* (constructor, processCustomPatterns, shouldIgnoreFile, scanFile,        *)
(* scanDirectory) and the command-line driver of src/bin/cli.js (main,     *)
(* collectFiles, scanStagedFiles).                                         *)
(*                                                                         *)
(* A JavaScript string is a sequence of one-character strings, so that     *)
(* toLowerCase, endsWith, split and regular-expression matching are        *)
(* computed character by character.                                        *)
(***************************************************************************)
EXTENDS Integers, Sequences, FiniteSets, TLC

(***************************************************************************)
(* Strings                                                                 *)
(***************************************************************************)
Digits == {"0", "1", "2", "3", "4", "5", "6", "7", "8", "9"}

UpperAZ ==
    {"A", "B", "C", "D", "E", "F", "G", "H", "I", "J", "K", "L", "M",
     "N", "O", "P", "Q", "R", "S", "T", "U", "V", "W", "X", "Y", "Z"}

LowerAZ ==
    {"a", "b", "c", "d", "e", "f", "g", "h", "i", "j", "k", "l", "m",
     "n", "o", "p", "q", "r", "s", "t", "u", "v", "w", "x", "y", "z"}

UpperSeq ==
    <<"A", "B", "C", "D", "E", "F", "G", "H", "I", "J", "K", "L", "M",
      "N", "O", "P", "Q", "R", "S", "T", "U", "V", "W", "X", "Y", "Z">>

LowerSeq ==
    <<"a", "b", "c", "d", "e", "f", "g", "h", "i", "j", "k", "l", "m",
      "n", "o", "p", "q", "r", "s", "t", "u", "v", "w", "x", "y", "z">>

\* String.prototype.toLowerCase on one character.
LowerChar(c) ==
    IF c \in UpperAZ
    THEN LowerSeq[CHOOSE i \in 1..26 : UpperSeq[i] = c]
    ELSE c

\* String.prototype.toLowerCase.
ToLowerCase(s) == [i \in 1..Len(s) |-> LowerChar(s[i])]

\* s.replace(/\\/g, '/')
Slashes(s) == [i \in 1..Len(s) |-> IF s[i] = "\\" THEN "/" ELSE s[i]]

StartsWith(s, p) == Len(p) <= Len(s) /\ SubSeq(s, 1, Len(p)) = p

EndsWith(s, p) ==
    Len(p) <= Len(s) /\ SubSeq(s, Len(s) - Len(p) + 1, Len(s)) = p

Includes(s, c) == \E i \in 1..Len(s) : s[i] = c

SeqIncludes(q, x) == \E i \in 1..Len(q) : q[i] = x

RECURSIVE SplitFrom(_, _, _, _)
\* s.split(sep) for a one-character separator: the pieces of s[i..], the
\* current piece being cur.
SplitFrom(s, sep, i, cur) ==
    IF i > Len(s) THEN <<cur>>
    ELSE IF s[i] = sep THEN <<cur>> \o SplitFrom(s, sep, i + 1, <<>>)
    ELSE SplitFrom(s, sep, i + 1, Append(cur, s[i]))

Split(s, sep) == SplitFrom(s, sep, 1, <<>>)

\* Array.prototype.filter(Boolean) on an array of strings.
FilterNonEmpty(q) == SelectSeq(q, LAMBDA x : x # <<>>)

RECURSIVE Join(_, _)
\* Array.prototype.join(sep)
Join(q, sep) ==
    IF q = <<>> THEN <<>>
    ELSE IF Len(q) = 1 THEN q[1]
    ELSE q[1] \o sep \o Join(Tail(q), sep)

RECURSIVE Flat(_)
\* Array.prototype.flat() of an array of arrays.
Flat(q) == IF q = <<>> THEN <<>> ELSE q[1] \o Flat(Tail(q))

IsSpace(c) == c \in {" ", "\t", "\n", "\r"}

RECURSIVE TrimLeft(_)
TrimLeft(s) ==
    IF s # <<>> /\ IsSpace(s[1]) THEN TrimLeft(Tail(s)) ELSE s

RECURSIVE TrimRight(_)
TrimRight(s) ==
    IF s # <<>> /\ IsSpace(s[Len(s)])
    THEN TrimRight(SubSeq(s, 1, Len(s) - 1))
    ELSE s

\* String.prototype.trim
Trim(s) == TrimRight(TrimLeft(s))

SeqToSet(q) == {q[i] : i \in 1..Len(q)}

IsPrefixOf(p, q) == Len(p) <= Len(q) /\ SubSeq(q, 1, Len(p)) = p

(***************************************************************************)
(* Paths (POSIX): process.cwd(), path.resolve, path.relative               *)
(***************************************************************************)
\* process.cwd(): the project root.
Cwd == <<"/", "p">>

\* path.resolve(p) for a path without '.' and '..' segments.
Resolve(p) ==
    IF p # <<>> /\ p[1] = "/" THEN p ELSE Cwd \o <<"/">> \o p

RECURSIVE CommonLen(_, _)
\* The number of leading segments two segment lists share.
CommonLen(a, b) ==
    IF a = <<>> \/ b = <<>> \/ a[1] # b[1] THEN 0
    ELSE 1 + CommonLen(Tail(a), Tail(b))

\* path.relative(from, to) for two absolute paths.
Relative(from, to) ==
    LET fs == FilterNonEmpty(Split(from, "/"))
        ts == FilterNonEmpty(Split(to, "/"))
        k  == CommonLen(fs, ts)
        up == [i \in 1..(Len(fs) - k) |-> <<".", ".">>]
    IN  Join(up \o SubSeq(ts, k + 1, Len(ts)), <<"/">>)

\* path.join(dir, item)
PathJoin(dir, item) == dir \o <<"/">> \o item

(***************************************************************************)
(* Regular expressions.  A compiled pattern is a sequence of alternatives, *)
(* tried in order; an alternative is a sequence of atoms; an atom is a     *)
(* character class with a greedy quantifier {min,max}.                     *)
(***************************************************************************)
\* The unbounded upper limit of *, + and {n,}.
Unbounded == 1000 * 1000

Atom(kind, set, min, max) ==
    [kind |-> kind, set |-> set, min |-> min, max |-> max]

\* one literal character
Lit(c) == Atom("set", {c}, 1, 1)

\* a literal string
Lits(s) == [i \in 1..Len(s) |-> Lit(s[i])]

\* [set]{min,max}
Cls(set, min, max) == <<Atom("set", set, min, max)>>

\* [^set]{min,max}
NotCls(set, min, max) == <<Atom("not", set, min, max)>>

\* Whether character c matches atom a; ic is the ignoreCase flag.
CharMatches(a, c, ic) ==
    CASE a.kind = "any" -> c \notin {"\n", "\r"}
      [] a.kind = "set" ->
            IF ic THEN \E x \in a.set : LowerChar(x) = LowerChar(c)
                  ELSE c \in a.set
      [] a.kind = "not" ->
            IF ic THEN \A x \in a.set : LowerChar(x) # LowerChar(c)
                  ELSE c \notin a.set

RECURSIVE RunLen(_, _, _, _, _)
\* How many characters of s from position j on atom a can take, at most lim.
RunLen(a, s, j, ic, lim) ==
    IF lim = 0 \/ j > Len(s) \/ ~CharMatches(a, s[j], ic) THEN 0
    ELSE 1 + RunLen(a, s, j + 1, ic, lim - 1)

RECURSIVE MatchEnd(_, _, _, _, _)
RECURSIVE TryCount(_, _, _, _, _, _)
\* Backtracking match of atoms[k..] at position j of s: the position after
\* the match, or 0 when there is none.
MatchEnd(atoms, k, s, j, ic) ==
    IF k > Len(atoms) THEN j
    ELSE LET r == RunLen(atoms[k], s, j, ic, atoms[k].max)
         IN  IF r < atoms[k].min THEN 0
             ELSE TryCount(atoms, k, s, j, ic, r)

\* Greedy: atom k takes n characters, then fewer while the rest fails.
TryCount(atoms, k, s, j, ic, n) ==
    LET e == MatchEnd(atoms, k + 1, s, j + n, ic)
    IN  IF e # 0 THEN e
        ELSE IF n > atoms[k].min THEN TryCount(atoms, k, s, j, ic, n - 1)
        ELSE 0

RECURSIVE MatchAlt(_, _, _, _, _)
\* The first alternative from a on that matches at position j.
MatchAlt(alts, a, s, j, ic) ==
    IF a > Len(alts) THEN 0
    ELSE LET e == MatchEnd(alts[a], 1, s, j, ic)
         IN  IF e # 0 THEN e ELSE MatchAlt(alts, a + 1, s, j, ic)

MatchAt(alts, s, j, ic) == MatchAlt(alts, 1, s, j, ic)

\* RegExp.prototype.test without the g flag: a match anywhere.
RegExpTest(re, s) ==
    \E j \in 1..(Len(s) + 1) : MatchAt(re.source, s, j, "i" \in re.flags) # 0

RECURSIVE MatchAllFrom(_, _, _, _)
\* The matches of a global regular expression from position j on, each
\* [index (0-based), text], leftmost first, not overlapping.
MatchAllFrom(alts, s, j, ic) ==
    IF j > Len(s) + 1 THEN <<>>
    ELSE LET e == MatchAt(alts, s, j, ic)
         IN  IF e = 0 THEN MatchAllFrom(alts, s, j + 1, ic)
             ELSE <<[index |-> j - 1, text |-> SubSeq(s, j, e - 1)]>>
                    \o MatchAllFrom(alts, s, IF e = j THEN j + 1 ELSE e, ic)

\* [...content.matchAll(re)] for a regular expression with the g flag.
MatchAll(re, s) == MatchAllFrom(re.source, s, 1, "i" \in re.flags)


RECURSIVE ParenDepth(_, _, _)
\* The nesting depth of ( at the end of src, or -1 once a ) closes nothing.
ParenDepth(src, i, d) ==
    IF d < 0 THEN -1
    ELSE IF i > Len(src) THEN d
    ELSE ParenDepth(src, i + 1,
                    IF src[i] = "(" THEN d + 1
                    ELSE IF src[i] = ")" THEN d - 1 ELSE d)

\* Whether new RegExp(src) throws a SyntaxError: an unterminated or
\* unmatched group, or a * with nothing to repeat.
PatternSyntaxError(src) ==
    \/ ParenDepth(src, 1, 0) # 0
    \/ src # <<>> /\ src[1] = "*"
    \/ \E i \in 2..Len(src) : src[i] = "*" /\ src[i - 1] \in {"*", "("}

\* Whether the flags string is accepted by new RegExp: no flag twice.
FlagsSyntaxError(flags) ==
    \E i, j \in 1..Len(flags) : i < j /\ flags[i] = flags[j]

RECURSIVE ParseAtoms(_, _)
\* The atoms of a pattern body made of literal characters, '.' and a
\* postfix '*'.
ParseAtoms(src, i) ==
    IF i > Len(src) THEN <<>>
    ELSE LET star == i + 1 <= Len(src) /\ src[i + 1] = "*"
             a    == Atom(IF src[i] = "." THEN "any" ELSE "set",
                          IF src[i] = "." THEN {} ELSE {src[i]},
                          IF star THEN 0 ELSE 1,
                          IF star THEN Unbounded ELSE 1)
         IN  <<a>> \o ParseAtoms(src, IF star THEN i + 2 ELSE i + 1)

\* new RegExp(src, flags) for a pattern string: ok is FALSE when the
\* constructor throws.
NewRegExp(src, flags) ==
    IF PatternSyntaxError(src) \/ FlagsSyntaxError(flags)
    THEN [ok |-> FALSE, source |-> <<>>, flags |-> {}]
    ELSE [ok |-> TRUE, source |-> <<ParseAtoms(src, 1)>>,
          flags |-> SeqToSet(flags)]

\* new RegExp(re, flags) for a RegExp object re: the source of re with the
\* flags given, which replace those of re.
WithFlags(re, flags) ==
    [ok |-> re.ok, source |-> re.source, flags |-> SeqToSet(flags)]

\* A regular-expression literal /.../ of the source, without flags.
Literal(alts) == [ok |-> TRUE, source |-> alts, flags |-> {}]

(***************************************************************************)
(* The built-in detectors                                                  *)
(***************************************************************************)
Alnum == LowerAZ \cup UpperAZ \cup Digits

Quote == {"'", "\""}

\* \s
WhiteSpace == {" ", "\t", "\n", "\r"}

\* ['"]\s*[:=]\s*['"]
Assign ==
    Cls(Quote, 1, 1) \o Cls(WhiteSpace, 0, Unbounded) \o Cls({":", "="}, 1, 1)
      \o Cls(WhiteSpace, 0, Unbounded) \o Cls(Quote, 1, 1)

\* [a-zA-Z0-9_-]
Token == Alnum \cup {"_", "-"}

GenericTail == Assign \o Cls(Token, 16, Unbounded) \o Cls(Quote, 1, 1)

\* [^\s'"]+
UrlPart == NotCls(WhiteSpace \cup Quote, 1, Unbounded)

DbTail ==
    Lits(<<":", "/", "/">>) \o UrlPart \o Lits(<<":">>) \o UrlPart \o Lits(<<"@">>)
      \o UrlPart

Detector(name, pattern, severity) ==
    [name |-> name, pattern |-> pattern, severity |-> severity]

BuiltinPatterns ==
    << Detector("Generic API Key",
         Literal(<< Cls(Quote, 1, 1) \o Lits(<<"a", "p", "i">>) \o Cls({"_", "-"}, 0, 1)
                      \o Lits(<<"k", "e", "y">>) \o GenericTail,
                    Cls(Quote, 1, 1) \o Lits(<<"a", "p", "i", "k", "e", "y">>) \o GenericTail >>),
         "high"),
       Detector("Generic Secret",
         Literal(<< Cls(Quote, 1, 1) \o Lits(<<"s", "e", "c", "r", "e", "t">>) \o GenericTail,
                    Cls(Quote, 1, 1) \o Lits(<<"t", "o", "k", "e", "n">>) \o GenericTail >>),
         "high"),
       Detector("AWS Access Key",
         Literal(<< Lits(<<"A", "K", "I", "A">>) \o Cls(Digits \cup UpperAZ, 16, 16) >>),
         "critical"),
       Detector("AWS Secret Key",
         Literal(<< Cls(Quote, 1, 1) \o Lits(<<"a", "w", "s", "_", "s", "e", "c", "r", "e", "t", "_", "a", "c", "c", "e", "s", "s", "_", "k", "e", "y">>)
                      \o Assign \o Cls(Alnum \cup {"/", "+", "="}, 40, 40)
                      \o Cls(Quote, 1, 1),
                    Cls(Quote, 1, 1) \o Lits(<<"A", "W", "S", "_", "S", "E", "C", "R", "E", "T", "_", "A", "C", "C", "E", "S", "S", "_", "K", "E", "Y">>)
                      \o Assign \o Cls(Alnum \cup {"/", "+", "="}, 40, 40)
                      \o Cls(Quote, 1, 1) >>),
         "critical"),
       Detector("Google API Key",
         Literal(<< Lits(<<"A", "I", "z", "a">>) \o Cls(Token, 35, 35) >>),
         "high"),
       Detector("Google OAuth",
         Literal(<< Cls(Digits, 1, Unbounded) \o Lits(<<"-">>)
                      \o Cls(Alnum \cup {"_"}, 32, 32)
                      \o Lits(<<".", "a", "p", "p", "s", ".", "g", "o", "o", "g", "l", "e", "u", "s", "e", "r", "c", "o", "n", "t", "e", "n", "t", ".", "c", "o", "m">>) >>),
         "high"),
       Detector("GitHub Token",
         Literal(<< Lits(<<"g", "h", "p", "_">>) \o Cls(Alnum, 36, 36) >>),
         "critical"),
       Detector("GitHub App Token",
         Literal(<< Lits(<<"g", "h", "s", "_">>) \o Cls(Alnum, 36, 36) >>),
         "critical"),
       Detector("Stripe API Key",
         Literal(<< Lits(<<"s", "k", "_", "t", "e", "s", "t", "_">>) \o Cls(Alnum, 24, Unbounded),
                    Lits(<<"s", "k", "_", "l", "i", "v", "e", "_">>) \o Cls(Alnum, 24, Unbounded),
                    Lits(<<"p", "k", "_", "t", "e", "s", "t", "_">>) \o Cls(Alnum, 24, Unbounded),
                    Lits(<<"p", "k", "_", "l", "i", "v", "e", "_">>) \o Cls(Alnum, 24, Unbounded) >>),
         "critical"),
       Detector("Slack Token",
         Literal(<< Lits(<<"x", "o", "x">>) \o Cls({"b", "a", "p", "r", "s"}, 1, 1)
                      \o Lits(<<"-">>)
                      \o Cls(Alnum \cup {"-"}, 10, Unbounded) >>),
         "high"),
       Detector("JWT Token",
         Literal(<< Lits(<<"e", "y", "J">>) \o Cls(Token, 1, Unbounded)
                      \o Lits(<<".", "e", "y", "J">>) \o Cls(Token, 1, Unbounded)
                      \o Lits(<<".">>) \o Cls(Token, 1, Unbounded) >>),
         "medium"),
       Detector("Database URL",
         Literal(<< Lits(<<"m", "o", "n", "g", "o", "d", "b", "+", "s", "r", "v">>) \o DbTail,
                    Lits(<<"m", "o", "n", "g", "o", "d", "b">>) \o DbTail,
                    Lits(<<"m", "y", "s", "q", "l">>) \o DbTail,
                    Lits(<<"p", "o", "s", "t", "g", "r", "e", "s", "q", "l">>) \o DbTail >>),
         "high"),
       Detector("Private Key",
         Literal(<< Lits(<<"-", "-", "-", "-", "-", "B", "E", "G", "I", "N", " ">>) \o Cls(UpperAZ \cup {" "}, 1, Unbounded)
                      \o Lits(<<"P", "R", "I", "V", "A", "T", "E", " ", "K", "E", "Y", "-", "-", "-", "-", "-">>) >>),
         "critical"),
       Detector("Bearer Token",
         Literal(<< Lits(<<"B", "e", "a", "r", "e", "r">>) \o Cls(WhiteSpace, 1, Unbounded)
                      \o Cls(Token, 20, Unbounded) >>),
         "medium") >>

(***************************************************************************)
(* Configuration and the APIKeyGuardian constructor                        *)
(***************************************************************************)
\* A property of the options object that is set.
Given(v) == [has |-> TRUE, val |-> v]

\* A property of the options object that is absent (undefined).
Missing == [has |-> FALSE, val |-> <<>>]

\* options.x || []
OrEmpty(prop) == IF prop.has THEN prop.val ELSE <<>>

DefaultIgnoredFiles == << <<".", "g", "i", "t", "/">>, <<"n", "o", "d", "e", "_", "m", "o", "d", "u", "l", "e", "s", "/">>, <<".", "e", "n", "v", ".", "e", "x", "a", "m", "p", "l", "e">> >>

DefaultIgnoredExtensions ==
    << <<".", "j", "p", "g">>, <<".", "p", "n", "g">>, <<".", "g", "i", "f">>, <<".", "p", "d", "f">>, <<".", "z", "i", "p">>, <<".", "t", "a", "r", ".", "g", "z">> >>

\* { ...defaults, ...options }: every property options has replaces the
\* one written before the spread.
Spread(defaults, options) ==
    [k \in DOMAIN defaults |->
        IF options[k].has THEN options[k].val ELSE defaults[k]]

\* this.options of the constructor.
GuardianOptions(options) ==
    Spread([ignoredFiles      |-> DefaultIgnoredFiles \o OrEmpty(options.ignoredFiles),
            ignoredExtensions |-> DefaultIgnoredExtensions
                                    \o OrEmpty(options.ignoredExtensions),
            customPatterns    |-> OrEmpty(options.customPatterns)],
           options)

\* A customPatterns entry whose pattern is a string (severity "": absent).
StringPattern(name, str, severity) ==
    [name |-> name, isString |-> TRUE, str |-> str,
     re |-> Literal(<<>>), severity |-> severity]

\* A customPatterns entry whose pattern is a RegExp object.
RegExpPattern(name, re, severity) ==
    [name |-> name, isString |-> FALSE, str |-> <<>>,
     re |-> re, severity |-> severity]

\* The index of the last '/' of s, or 0.
LastSlash(s) ==
    IF Includes(s, "/")
    THEN CHOOSE i \in 1..Len(s) :
            s[i] = "/" /\ \A j \in (i + 1)..Len(s) : s[j] # "/"
    ELSE 0

\* pattern.pattern.match(/^\/(.+)\/([gimuy]*)$/): whether it matches.
IsDelimited(str) ==
    /\ Len(str) >= 3
    /\ str[1] = "/"
    /\ LastSlash(str) >= 3
    /\ \A j \in (LastSlash(str) + 1)..Len(str) :
          str[j] \in {"g", "i", "m", "u", "y"}

\* match[1] and match[2]
DelimitedBody(str) == SubSeq(str, 2, LastSlash(str) - 1)

DelimitedFlags(str) == SubSeq(str, LastSlash(str) + 1, Len(str))

\* The regex one customPatterns entry is compiled to.
CompileCustom(p) ==
    IF p.isString
    THEN IF IsDelimited(p.str)
         THEN NewRegExp(DelimitedBody(p.str), DelimitedFlags(p.str))
         ELSE NewRegExp(p.str, <<>>)
    ELSE p.re

\* processCustomPatterns: the detectors of the custom patterns; an entry
\* with pattern.ok FALSE stands for the SyntaxError thrown at it.
ProcessCustomPatterns(customPatterns) ==
    [i \in 1..Len(customPatterns) |->
        Detector(customPatterns[i].name,
                 CompileCustom(customPatterns[i]),
                 IF customPatterns[i].severity # ""
                 THEN customPatterns[i].severity ELSE "medium")]

\* A constructor that catches the SyntaxError of a custom pattern and leaves
\* the pattern out of this.patterns.
NewGuardianDroppingMalformed(options) ==
    LET opts   == GuardianOptions(options)
        custom == ProcessCustomPatterns(opts.customPatterns)
    IN  [state |-> "ok", options |-> opts,
         patterns |-> BuiltinPatterns
                        \o SelectSeq(custom, LAMBDA d : d.pattern.ok)]

\* new APIKeyGuardian(options): threw when processCustomPatterns throws.
NewGuardian(options) ==
    LET opts   == GuardianOptions(options)
        custom == ProcessCustomPatterns(opts.customPatterns)
    IN  IF \E i \in 1..Len(custom) : ~custom[i].pattern.ok
        THEN [state |-> "threw", options |-> opts, patterns |-> <<>>]
        ELSE [state |-> "ok", options |-> opts,
              patterns |-> BuiltinPatterns \o custom]

\* No guardian constructed yet.
NoGuardian ==
    [state |-> "none",
     options |-> [ignoredFiles |-> <<>>, ignoredExtensions |-> <<>>,
                  customPatterns |-> <<>>],
     patterns |-> <<>>]

(***************************************************************************)
(* shouldIgnoreFile                                                        *)
(***************************************************************************)
\* A wildcard rule used as a pattern as it is written.
StarKept(s) == s

\* normalizedIgnored.replace(/\*/g, '.*')
StarToDotStar(s) ==
    Flat([i \in 1..Len(s) |-> IF s[i] = "*" THEN <<".", "*">> ELSE <<s[i]>>])

\* One pass of the loop over ignoredFiles: whether rule `ignored` returns true.
IgnoredByRule(ignored, relativePath, pathSegments) ==
    LET normalizedIgnored == ToLowerCase(Slashes(ignored))
        dirName == SubSeq(normalizedIgnored, 1, Len(normalizedIgnored) - 1)
    IN  \/ /\ EndsWith(normalizedIgnored, <<"/">>)
           /\ \/ SeqIncludes(pathSegments, dirName)
              \/ StartsWith(relativePath, dirName \o <<"/">>)
        \/ /\ Includes(normalizedIgnored, "*")
           /\ RegExpTest(NewRegExp(StarToDotStar(normalizedIgnored), <<>>),
                         relativePath)
        \/ relativePath = normalizedIgnored
        \/ EndsWith(relativePath, <<"/">> \o normalizedIgnored)
        \/ /\ pathSegments # <<>>
           /\ pathSegments[Len(pathSegments)] = normalizedIgnored

\* shouldIgnoreFile(filePath) of a guardian with the given options.
ShouldIgnoreFile(options, filePath) ==
    LET absolutePath == Resolve(filePath)
        normPath     == ToLowerCase(Slashes(absolutePath))
        relativePath == ToLowerCase(Slashes(Relative(Cwd, absolutePath)))
        pathSegments == FilterNonEmpty(Split(relativePath, "/"))
    IN  IF relativePath = <<>> \/ StartsWith(relativePath, <<".", ".">>)
        THEN FALSE
        ELSE \/ \E i \in 1..Len(options.ignoredFiles) :
                  IgnoredByRule(options.ignoredFiles[i], relativePath,
                                pathSegments)
             \/ \E i \in 1..Len(options.ignoredExtensions) :
                  EndsWith(normPath, ToLowerCase(options.ignoredExtensions[i]))

(***************************************************************************)
(* The file system the scans run on.  stat and read give the same answer   *)
(* every time they are asked: the tree does not change during a run.       *)
(***************************************************************************)
\* 1024 * 1024, the size above which scanFile skips a file.
SizeLimit == 1024 * 1024

\* A text with matches of two detectors on three lines.
DocTwoDetectors == <<"k", "e", "y", "\n", "A", "K", "I", "A", "A", "B", "C", "D", "E", "F", "G", "H", "I", "J", "K", "L", "M", "N", "O", "P", "\n", " ", " ", "K", "E", "Y", " ", "k", "e", "y">>

\* A text with one AWS access key.
DocAwsKey == <<"i", "d", "=", "A", "K", "I", "A", "A", "B", "C", "D", "E", "F", "G", "H", "I", "J", "K", "L", "M", "N", "O", "P">>

File(size, content, statErr, readErr) ==
    [kind |-> "file", size |-> size, content |-> content, entries |-> <<>>,
     statErr |-> statErr, readErr |-> readErr]

Dir(entries, statErr, readErr) ==
    [kind |-> "dir", size |-> 0, content |-> <<>>, entries |-> entries,
     statErr |-> statErr, readErr |-> readErr]

\* A path nothing is at: stat fails with ENOENT.
NoEntry ==
    [kind |-> "none", size |-> 0, content |-> <<>>, entries |-> <<>>,
     statErr |-> "ENOENT", readErr |-> "ENOENT"]

PathGit     == <<"/", "p", "/", ".", "g", "i", "t">>
PathGitFile == <<"/", "p", "/", ".", "g", "i", "t", "/", "c", ".", "j", "s">>
PathA       == <<"/", "p", "/", "a", ".", "j", "s">>
PathBig     == <<"/", "p", "/", "b", "i", "g", ".", "j", "s">>
PathLog     == <<"/", "p", "/", "d", "e", "b", "u", "g", ".", "l", "o", "g">>
PathDist    == <<"/", "p", "/", "d", "i", "s", "t">>
PathDistFile == <<"/", "p", "/", "d", "i", "s", "t", "/", "d", ".", "j", "s">>
PathImage   == <<"/", "p", "/", "i", ".", "P", "N", "G">>
PathLocked  == <<"/", "p", "/", "l", "o", "c", "k", "e", "d", ".", "j", "s">>
PathOut     == <<"/", "o">>
PathOutImage == <<"/", "o", "/", "k", ".", "P", "N", "G">>
PathSealed  == <<"/", "o", "/", "s", "e", "a", "l", "e", "d">>
PathSealedFile == <<"/", "o", "/", "s", "e", "a", "l", "e", "d", "/", "s", ".", "j", "s">>
PathGone    == <<"/", "p", "/", "g", "o", "n", "e", ".", "j", "s">>

\* Every path a directory listing or a caller can name.
AllPaths ==
    {Cwd, PathGit, PathGitFile, PathA, PathBig, PathLog, PathDist,
     PathDistFile, PathImage, PathLocked, PathOut, PathOutImage, PathSealed,
     PathSealedFile, PathGone}

\* What is at path p.
FsEntry(p) ==
    CASE p = Cwd -> Dir(<< <<".", "g", "i", "t">>, <<"a", ".", "j", "s">>, <<"b", "i", "g", ".", "j", "s">>, <<"d", "e", "b", "u", "g", ".", "l", "o", "g">>,
                           <<"d", "i", "s", "t">>, <<"g", "o", "n", "e", ".", "j", "s">>, <<"i", ".", "P", "N", "G">>, <<"l", "o", "c", "k", "e", "d", ".", "j", "s">> >>,
                        "", "")
      [] p = PathGit        -> Dir(<< <<"c", ".", "j", "s">> >>, "", "")
      [] p = PathGitFile    -> File(21, DocAwsKey, "", "")
      [] p = PathA          -> File(SizeLimit, DocTwoDetectors, "", "")
      [] p = PathBig        -> File(SizeLimit + 1, DocAwsKey, "", "")
      [] p = PathLog        -> File(21, DocAwsKey, "", "")
      [] p = PathDist       -> Dir(<< <<"d", ".", "j", "s">> >>, "", "")
      [] p = PathDistFile   -> File(21, DocAwsKey, "", "")
      [] p = PathImage      -> File(21, DocAwsKey, "", "")
      [] p = PathLocked     -> File(21, DocAwsKey, "", "EACCES")
      [] p = PathOut        -> Dir(<< <<"k", ".", "P", "N", "G">>, <<"s", "e", "a", "l", "e", "d">> >>, "", "")
      [] p = PathOutImage   -> File(21, DocAwsKey, "", "")
      [] p = PathSealed     -> Dir(<< <<"s", ".", "j", "s">> >>, "", "EACCES")
      [] p = PathSealedFile -> File(21, DocAwsKey, "EACCES", "EACCES")
      [] OTHER              -> NoEntry

\* fs.promises.stat / fs.statSync: "" or the error code.
StatError(p) == FsEntry(p).statErr

\* fs.existsSync
ExistsSync(p) == FsEntry(p).statErr = ""

\* fs.promises.readFile(p, 'utf8'): "" or the error code; a directory
\* cannot be read as a file.
ReadFileError(p) ==
    IF FsEntry(p).kind = "dir" /\ FsEntry(p).readErr = "" THEN "EISDIR"
    ELSE FsEntry(p).readErr

\* fs.promises.readdir(p): "" or the error code.
ReaddirError(p) ==
    IF FsEntry(p).kind = "file" /\ FsEntry(p).readErr = "" THEN "ENOTDIR"
    ELSE FsEntry(p).readErr

(***************************************************************************)
(* scanFile: the findings of one file's content                            *)
(***************************************************************************)
\* match[0].substring(0, 50) + (match[0].length > 50 ? '...' : '')
Snippet(text) ==
    IF Len(text) > 50 THEN SubSeq(text, 1, 50) \o <<".", ".", ".">> ELSE text

\* content.substring(0, matchIndex).split('\n').length
LineNumber(content, matchIndex) ==
    Len(Split(SubSeq(content, 1, matchIndex), "\n"))

\* lines[lineNumber - 1] || ''
LineAt(content, lineNumber) ==
    LET lines == Split(content, "\n")
    IN  IF lineNumber <= Len(lines) THEN lines[lineNumber] ELSE <<>>

\* The object pushed for one match.  index is match.index, which the code
\* reads and does not store; it is kept here to state the order of a list.
Finding(filePath, content, patternDef, match) ==
    [file        |-> Relative(Cwd, Resolve(filePath)),
     line        |-> LineNumber(content, match.index),
     pattern     |-> patternDef.name,
     severity    |-> patternDef.severity,
     match       |-> Snippet(match.text),
     fullMatch   |-> match.text,
     lineContent |-> Trim(LineAt(content, LineNumber(content, match.index))),
     index       |-> match.index]

\* The findings of one detector with the last match first (unshift in
\* place of push).
DetectorFindingsLastFirst(filePath, content, patternDef) ==
    LET matches == MatchAll(WithFlags(patternDef.pattern, <<"g">>), content)
    IN  [m \in 1..Len(matches) |->
            Finding(filePath, content, patternDef,
                    matches[Len(matches) + 1 - m])]

\* The inner loop: the findings of one detector, in the order of matchAll.
DetectorFindings(filePath, content, patternDef) ==
    LET matches == MatchAll(WithFlags(patternDef.pattern, <<"g">>), content)
    IN  [m \in 1..Len(matches) |->
            Finding(filePath, content, patternDef, matches[m])]

\* The outer loop: the findings of every detector, in the order of
\* this.patterns.
ContentFindings(patterns, filePath, content) ==
    Flat([d \in 1..Len(patterns) |->
            DetectorFindings(filePath, content, patterns[d])])

(***************************************************************************)
(* collectFiles of cli.js.  Nothing else runs while it awaits, so the      *)
(* whole walk is one value: the files found, the directories readdir was   *)
(* called on, and the warnings printed.                                    *)
(***************************************************************************)
Warning(src, path) == [src |-> src, path |-> path]

NoFiles == [files |-> <<>>, listed |-> {}, warned |-> {}]

Both(a, b) ==
    [files  |-> a.files \o b.files,
     listed |-> a.listed \cup b.listed,
     warned |-> a.warned \cup b.warned]

\* The catch blocks of collectFiles: every code but ENOENT and EACCES warns.
AccessWarning(code, path) ==
    IF code \notin {"ENOENT", "EACCES"}
    THEN {Warning("collectFiles", path)} ELSE {}

RECURSIVE CollectFiles(_, _)
RECURSIVE CollectItems(_, _, _, _)
\* collectFiles(dir, guardian.shouldIgnoreFile.bind(guardian))
CollectFiles(options, dir) ==
    LET absoluteDir == Resolve(dir)
    IN  IF ShouldIgnoreFile(options, absoluteDir) THEN NoFiles
        ELSE IF ReaddirError(absoluteDir) # ""
        THEN [files |-> <<>>, listed |-> {absoluteDir},
              warned |-> AccessWarning(ReaddirError(absoluteDir), absoluteDir)]
        ELSE Both([files |-> <<>>, listed |-> {absoluteDir}, warned |-> {}],
                  CollectItems(options, absoluteDir,
                               FsEntry(absoluteDir).entries, 1))

\* The loop over items, from item k on.
CollectItems(options, absoluteDir, items, k) ==
    IF k > Len(items) THEN NoFiles
    ELSE LET itemPath == PathJoin(absoluteDir, items[k])
             here ==
                IF ShouldIgnoreFile(options, itemPath) THEN NoFiles
                ELSE IF StatError(itemPath) # ""
                THEN [files |-> <<>>, listed |-> {},
                      warned |-> AccessWarning(StatError(itemPath), itemPath)]
                ELSE IF FsEntry(itemPath).kind = "dir"
                THEN CollectFiles(options, itemPath)
                ELSE IF FsEntry(itemPath).kind = "file"
                THEN [files |-> <<itemPath>>, listed |-> {}, warned |-> {}]
                ELSE NoFiles
         IN  Both(here, CollectItems(options, absoluteDir, items, k + 1))

RECURSIVE ResolveTargets(_, _, _)
\* The loop over targets of main, from target k on.
ResolveTargets(options, targets, k) ==
    IF k > Len(targets) THEN NoFiles
    ELSE LET targetPath == Resolve(targets[k])
             here ==
                IF ~ExistsSync(targetPath)
                THEN [files |-> <<>>, listed |-> {},
                      warned |-> {Warning("main", targetPath)}]
                ELSE IF FsEntry(targetPath).kind = "dir"
                THEN CollectFiles(options, targetPath)
                ELSE IF FsEntry(targetPath).kind = "file"
                THEN [files |-> <<targetPath>>, listed |-> {}, warned |-> {}]
                ELSE NoFiles
         IN  Both(here, ResolveTargets(options, targets, k + 1))

\* The staged files of scanStagedFiles: the lines git prints, resolved,
\* those that exist.
StagedFiles(lines) ==
    SelectSeq([k \in 1..Len(lines) |-> Resolve(lines[k])], ExistsSync)

(***************************************************************************)
(* Bounds and inputs                                                       *)
(***************************************************************************)
\* The most paths on a command line.
MaxTargets == 2

\* The most files git reports as staged.
MaxStaged == 2

SeqsUpTo(S, n) == UNION {[1..k -> S] : k \in 1..n}

NoOptions ==
    [ignoredFiles |-> Missing, ignoredExtensions |-> Missing,
     customPatterns |-> Missing]

\* The options objects: the parsed .apiguardian.json, or what a caller of
\* the library passes.
Configs ==
    { NoOptions,
      [NoOptions EXCEPT !.ignoredFiles = Given(<< <<"*", ".", "l", "o", "g">> >>)],
      [NoOptions EXCEPT !.ignoredFiles = Given(<< <<"d", "i", "s", "t">> >>),
                        !.ignoredExtensions = Given(<< <<".", "L", "o", "g">> >>)],
      [NoOptions EXCEPT !.customPatterns =
          Given(<< StringPattern("Custom Key", <<"/", "k", "e", "y", "/", "i">>, ""),
                   StringPattern("Raw", <<"A", ".", "*", "I">>, "low") >>)],
      [NoOptions EXCEPT !.customPatterns =
          Given(<< StringPattern("Bad", <<"k", "e", "(", "y">>, "high") >>)] }

Input(mode, args, gitOk, recursive) ==
    [mode |-> mode, args |-> args, gitOk |-> gitOk, recursive |-> recursive]

\* Paths given on the command line.
TargetArgs == { <<"a", ".", "j", "s">>, <<"i", ".", "P", "N", "G">>, <<"d", "i", "s", "t">>, <<"n", "o", "p", "e", ".", "j", "s">>, PathOut }

\* Lines of git diff --cached --name-only.
StagedArgs == { <<"a", ".", "j", "s">>, <<"i", ".", "P", "N", "G">>, <<"d", "e", "b", "u", "g", ".", "l", "o", "g">>, <<"d", "e", "l", "e", "t", "e", "d", ".", "j", "s">> }

\* Paths the library's shouldIgnoreFile is asked about.
ProbePaths ==
    { <<"d", "e", "b", "u", "g", ".", "l", "o", "g">>, <<"l", "o", "g", "s", "/", "t", "o", "d", "a", "y", ".", "l", "o", "g">>, <<"l", "o", "g", "f", "i", "l", "e", ".", "t", "x", "t">>, <<"a", ".", "j", "s">>,
      <<"a", "/", "n", "o", "d", "e", "_", "m", "o", "d", "u", "l", "e", "s", "/", "b", "/", "s", "e", "c", "r", "e", "t", ".", "j", "s">>, <<"i", ".", "P", "N", "G">>, <<"d", "i", "s", "t">>, <<"d", "i", "s", "t", "\\", "d", ".", "j", "s">>,
      Cwd, PathOutImage, <<"/", "o", "/", "k", ".", "j", "s">>, <<"/", "o", "/", "d", "e", "b", "u", "g", ".", "l", "o", "g">> }

\* The modes of cli.js that scan.
ScanModes == {"scanAll", "targets", "staged"}

CliInputs ==
    {Input("info", <<>>, TRUE, TRUE), Input("scanAll", <<>>, TRUE, TRUE),
     Input("staged", <<>>, FALSE, TRUE)}
      \cup {Input("targets", a, TRUE, TRUE) : a \in SeqsUpTo(TargetArgs, MaxTargets)}
      \cup {Input("staged", a, TRUE, TRUE) : a \in SeqsUpTo(StagedArgs, MaxStaged)}

LibInputs ==
    {Input("scanDirectory", <<d>>, TRUE, r) :
        d \in {Cwd, PathDist, PathGit, PathOut}, r \in BOOLEAN}
      \cup {Input("scanFile", <<p>>, TRUE, TRUE) :
              p \in {PathA, PathBig, PathLocked, PathGone, PathSealedFile}}
      \cup {Input("shouldIgnoreFile", <<p>>, TRUE, TRUE) : p \in ProbePaths}

(***************************************************************************)
(* State                                                                   *)
(***************************************************************************)
VARIABLES
    config,       \* the options object given to the constructor
    input,        \* the command line, or the library call made
    pc,           \* where main (or the library's caller) is
    guardian,     \* the APIKeyGuardian instance
    allFiles,     \* allFiles of main, stagedFiles of scanStagedFiles
    scanIndex,    \* i of the scan loop of main, counted from 1
    findings,     \* the findings main (or the caller) holds
    tasks,        \* the scanFile and scanDirectory calls, by path
    listed,       \* history: the directories readdir was called on
    scanned,      \* history: the paths scanFile was called on
    warnings,     \* history: the warnings printed
    ignoreResult, \* what the library's shouldIgnoreFile returned
    exitCode,     \* the exit code of the process
    first         \* the sequential run a concurrent run is compared with

vars ==
    <<config, input, pc, guardian, allFiles, scanIndex, findings, tasks, listed,
      scanned, warnings, ignoreResult, exitCode, first>>

NoFailure == [step |-> "", code |-> ""]

\* No call of scanFile or scanDirectory on this path.
IdleTask ==
    [kind |-> "none", pc |-> "idle", recursive |-> TRUE, items |-> <<>>,
     idx |-> 0, children |-> <<>>, result |-> <<>>, failed |-> NoFailure]

\* scanFile(p) called: it runs up to its first await, the stat.
FileTask == [IdleTask EXCEPT !.kind = "file", !.pc = "stat"]

\* scanDirectory(p, recursive) called: it runs up to its first await,
\* the readdir.
DirTask(recursive) ==
    [IdleTask EXCEPT !.kind = "dir", !.pc = "readdir", !.recursive = recursive]

NoFirstRun == [done |-> FALSE, findings |-> <<>>]

InitWith(inputs) ==
    /\ config \in Configs
    /\ input \in inputs
    /\ pc = "start"
    /\ guardian = NoGuardian
    /\ allFiles = <<>>
    /\ scanIndex = 1
    /\ findings = <<>>
    /\ tasks = [p \in AllPaths |-> IdleTask]
    /\ listed = {}
    /\ scanned = {}
    /\ warnings = {}
    /\ ignoreResult = FALSE
    /\ exitCode = 0
    /\ first = NoFirstRun

Init == InitWith(CliInputs \cup LibInputs)

(***************************************************************************)
(* main of cli.js, and the calls a user of the library makes               *)
(***************************************************************************)
\* --help, --install-hooks, --config: main returns before it constructs a
\* guardian.
MainInfo ==
    /\ pc = "start"
    /\ input.mode = "info"
    /\ pc' = "exit"
    /\ UNCHANGED <<config, input, guardian, allFiles, scanIndex, findings, tasks,
                   listed, scanned, warnings, ignoreResult, exitCode, first>>

\* new APIKeyGuardian(config): an exception of the constructor is caught
\* nowhere and ends the process.
Construct ==
    /\ pc = "start"
    /\ input.mode # "info"
    /\ guardian' = NewGuardian(config)
    /\ pc' = IF guardian'.state = "threw" THEN "crashed" ELSE "main"
    /\ exitCode' = IF guardian'.state = "threw" THEN 1 ELSE exitCode
    /\ UNCHANGED <<config, input, allFiles, scanIndex, findings, tasks, listed,
                   scanned, warnings, ignoreResult, first>>

\* What main does with the files it collected: it scans them one by one.
StartLoop(walk) ==
    /\ allFiles' = walk.files
    /\ listed' = listed \cup walk.listed
    /\ warnings' = warnings \cup walk.warned
    /\ findings' = <<>>
    /\ scanIndex' = 1
    /\ pc' = IF walk.files = <<>> THEN "report" ELSE "loop"
    /\ UNCHANGED <<config, input, guardian, tasks, scanned, ignoreResult,
                   exitCode, first>>

\* --scan-all: collectFiles(process.cwd(), ...)
ScanAll ==
    /\ pc = "main"
    /\ input.mode = "scanAll"
    /\ StartLoop(CollectFiles(guardian.options, Cwd))

\* Paths on the command line: a directory is walked, a file is taken as
\* it is.
ScanTargets ==
    /\ pc = "main"
    /\ input.mode = "targets"
    /\ StartLoop(ResolveTargets(guardian.options, input.args, 1))

\* findings.push(...(await guardian.scanFile(allFiles[scanIndex]))): the call.
LoopCall ==
    /\ pc = "loop"
    /\ tasks' = [tasks EXCEPT ![allFiles[scanIndex]] = FileTask]
    /\ scanned' = scanned \cup {allFiles[scanIndex]}
    /\ pc' = "await"
    /\ UNCHANGED <<config, input, guardian, allFiles, scanIndex, findings, listed,
                   warnings, ignoreResult, exitCode, first>>

\* The position of main after file scanIndex of the loop it is in.
AfterFile ==
    IF input.mode = "staged" THEN "staged"
    ELSE IF scanIndex + 1 > Len(allFiles) THEN "report" ELSE "loop"

\* ... the awaited scanFile returned: its findings are pushed.
LoopResume ==
    /\ pc = "await"
    /\ tasks[allFiles[scanIndex]].pc = "done"
    /\ findings' = findings \o tasks[allFiles[scanIndex]].result
    /\ scanIndex' = scanIndex + 1
    /\ pc' = AfterFile
    /\ UNCHANGED <<config, input, guardian, allFiles, tasks, listed, scanned,
                   warnings, ignoreResult, exitCode, first>>

\* No path on the command line: scanStagedFiles, when git lists the files.
Staged ==
    /\ pc = "main"
    /\ input.mode = "staged"
    /\ input.gitOk
    /\ allFiles' = StagedFiles(input.args)
    /\ findings' = <<>>
    /\ scanIndex' = 1
    /\ pc' = "staged"
    /\ UNCHANGED <<config, input, guardian, tasks, listed, scanned, warnings,
                   ignoreResult, exitCode, first>>

\* scanStagedFiles when execSync throws: scanDirectory(process.cwd(), true).
StagedFallback ==
    /\ pc = "main"
    /\ input.mode = "staged"
    /\ ~input.gitOk
    /\ warnings' = warnings \cup {Warning("scanStagedFiles", Cwd)}
    /\ tasks' = [tasks EXCEPT ![Cwd] = DirTask(TRUE)]
    /\ pc' = "awaitDir"
    /\ UNCHANGED <<config, input, guardian, allFiles, scanIndex, findings, listed,
                   scanned, ignoreResult, exitCode, first>>

\* One pass of the loop over stagedFiles: an ignored file is passed over,
\* another is scanned.
StagedStep ==
    /\ pc = "staged"
    /\ scanIndex <= Len(allFiles)
    /\ IF ShouldIgnoreFile(guardian.options, allFiles[scanIndex])
       THEN /\ scanIndex' = scanIndex + 1
            /\ UNCHANGED <<pc, tasks, scanned>>
       ELSE /\ tasks' = [tasks EXCEPT ![allFiles[scanIndex]] = FileTask]
            /\ scanned' = scanned \cup {allFiles[scanIndex]}
            /\ pc' = "await"
            /\ UNCHANGED scanIndex
    /\ UNCHANGED <<config, input, guardian, allFiles, findings, listed,
                   warnings, ignoreResult, exitCode, first>>

\* The loop over stagedFiles is over: scanStagedFiles returns.
StagedEnd ==
    /\ pc = "staged"
    /\ scanIndex > Len(allFiles)
    /\ pc' = "report"
    /\ UNCHANGED <<config, input, guardian, allFiles, scanIndex, findings, tasks,
                   listed, scanned, warnings, ignoreResult, exitCode, first>>

\* The awaited scanDirectory returned.
DirReturned ==
    /\ pc = "awaitDir"
    /\ tasks[Resolve(IF input.mode = "staged" THEN Cwd ELSE input.args[1])].pc
          = "done"
    /\ findings' =
          tasks[Resolve(IF input.mode = "staged" THEN Cwd
                        ELSE input.args[1])].result
    /\ pc' = IF input.mode = "staged" THEN "report" ELSE "returned"
    /\ UNCHANGED <<config, input, guardian, allFiles, scanIndex, tasks, listed,
                   scanned, warnings, ignoreResult, exitCode, first>>

\* console.log(guardian.formatFindings(findings)); process.exit(1) when
\* there are findings.
Report ==
    /\ pc = "report"
    /\ exitCode' = IF Len(findings) > 0 THEN 1 ELSE 0
    /\ pc' = "exit"
    /\ UNCHANGED <<config, input, guardian, allFiles, scanIndex, findings, tasks,
                   listed, scanned, warnings, ignoreResult, first>>

\* A caller of the library: guardian.scanDirectory(dirPath, recursive)
LibScanDirectory ==
    /\ pc = "main"
    /\ input.mode = "scanDirectory"
    /\ tasks' = [tasks EXCEPT ![Resolve(input.args[1])] = DirTask(input.recursive)]
    /\ pc' = "awaitDir"
    /\ UNCHANGED <<config, input, guardian, allFiles, scanIndex, findings, listed,
                   scanned, warnings, ignoreResult, exitCode, first>>

\* A caller of the library: guardian.scanFile(filePath)
LibScanFile ==
    /\ pc = "main"
    /\ input.mode = "scanFile"
    /\ tasks' = [tasks EXCEPT ![input.args[1]] = FileTask]
    /\ scanned' = scanned \cup {input.args[1]}
    /\ pc' = "awaitFile"
    /\ UNCHANGED <<config, input, guardian, allFiles, scanIndex, findings, listed,
                   warnings, ignoreResult, exitCode, first>>

\* ... the awaited scanFile returned.
FileReturned ==
    /\ pc = "awaitFile"
    /\ tasks[input.args[1]].pc = "done"
    /\ findings' = tasks[input.args[1]].result
    /\ pc' = "returned"
    /\ UNCHANGED <<config, input, guardian, allFiles, scanIndex, tasks, listed,
                   scanned, warnings, ignoreResult, exitCode, first>>

\* A caller of the library: guardian.shouldIgnoreFile(filePath)
LibShouldIgnoreFile ==
    /\ pc = "main"
    /\ input.mode = "shouldIgnoreFile"
    /\ ignoreResult' = ShouldIgnoreFile(guardian.options, input.args[1])
    /\ pc' = "returned"
    /\ UNCHANGED <<config, input, guardian, allFiles, scanIndex, findings, tasks,
                   listed, scanned, warnings, exitCode, first>>

(***************************************************************************)
(* scanFile and scanDirectory: asynchronous calls, each resumed when the   *)
(* operation it awaits completes, in any order.                            *)
(***************************************************************************)
\* What scanFile finds in each file, for each this.patterns a guardian of
\* the model can hold: ContentFindings, computed once.
ScanTable ==
    [ps \in {NewGuardian(c).patterns : c \in Configs}, p \in AllPaths |->
        ContentFindings(ps, p, FsEntry(p).content)]

\* The catch of scanFile: every code but ENOENT warns.
ScanFileWarning(code, p) ==
    IF code # "ENOENT" THEN {Warning("scanFile", p)} ELSE {}

\* What the inner catch of scanFile (around readFile) prints: nothing.
ReadFileWarning(code, p) == {}

Done(task, result, step, code) ==
    [task EXCEPT !.pc = "done", !.result = result,
                 !.failed = [step |-> step, code |-> code]]

\* A guard that also skips a file of exactly the limit (>= in place of >).
AtOrAboveLimit(size) == size >= SizeLimit

\* stat.size > 1024 * 1024
AboveLimit(size) == size > SizeLimit

\* scanFile(p): the stat completes.  An error is caught by the outer catch;
\* a file above the size limit returns no findings.
ScanFileStat(p) ==
    /\ tasks[p].kind = "file"
    /\ tasks[p].pc = "stat"
    /\ IF StatError(p) # ""
       THEN /\ tasks' = [tasks EXCEPT ![p] = Done(@, <<>>, "stat", StatError(p))]
            /\ warnings' = warnings \cup ScanFileWarning(StatError(p), p)
       ELSE /\ tasks' = [tasks EXCEPT ![p] =
                            IF AboveLimit(FsEntry(p).size)
                            THEN Done(@, <<>>, "", "")
                            ELSE [@ EXCEPT !.pc = "read"]]
            /\ UNCHANGED warnings
    /\ UNCHANGED <<config, input, pc, guardian, allFiles, scanIndex, findings, listed,
                   scanned, ignoreResult, exitCode, first>>

\* scanFile(p): the readFile completes.  An error is caught by the inner
\* catch; otherwise every detector is matched against the content.
ScanFileRead(p) ==
    /\ tasks[p].kind = "file"
    /\ tasks[p].pc = "read"
    /\ IF ReadFileError(p) # ""
       THEN /\ tasks' = [tasks EXCEPT ![p] =
                            Done(@, <<>>, "read", ReadFileError(p))]
            /\ warnings' = warnings \cup ReadFileWarning(ReadFileError(p), p)
       ELSE /\ tasks' = [tasks EXCEPT ![p] =
                            Done(@, ScanTable[guardian.patterns, p],
                                 "", "")]
            /\ UNCHANGED warnings
    /\ UNCHANGED <<config, input, pc, guardian, allFiles, scanIndex, findings, listed,
                   scanned, ignoreResult, exitCode, first>>

RECURSIVE NextItem(_, _, _, _)
\* The loop of scanDirectory runs on over the items shouldIgnoreFile is true
\* of, up to the next item it awaits the stat of: that item's index, or
\* Len(items) + 1.
NextItem(options, dirPath, items, k) ==
    IF k > Len(items) THEN k
    ELSE IF ShouldIgnoreFile(options, PathJoin(dirPath, items[k]))
    THEN NextItem(options, dirPath, items, k + 1)
    ELSE k

\* scanDirectory(d): the readdir completes.  An error is caught and warned
\* of; otherwise the loop over the items begins.
ScanDirReaddir(d) ==
    /\ tasks[d].kind = "dir"
    /\ tasks[d].pc = "readdir"
    /\ listed' = listed \cup {d}
    /\ IF ReaddirError(d) # ""
       THEN /\ tasks' = [tasks EXCEPT ![d] = Done(@, <<>>, "readdir",
                                                  ReaddirError(d))]
            /\ warnings' = warnings \cup {Warning("scanDirectory", d)}
       ELSE /\ tasks' = [tasks EXCEPT ![d] =
               LET k == NextItem(guardian.options, d, FsEntry(d).entries, 1)
               IN  [@ EXCEPT !.items = FsEntry(d).entries, !.idx = k,
                             !.pc = IF k > Len(FsEntry(d).entries)
                                    THEN "join" ELSE "item"]]
            /\ UNCHANGED warnings
    /\ UNCHANGED <<config, input, pc, guardian, allFiles, scanIndex, findings, scanned,
                   ignoreResult, exitCode, first>>

\* The task pushed for an item whose stat succeeded, if any.
ItemTask(itemPath, recursive) ==
    IF FsEntry(itemPath).kind = "dir" /\ recursive THEN DirTask(recursive)
    ELSE IF FsEntry(itemPath).kind = "file" THEN FileTask
    ELSE IdleTask

\* scanDirectory(d): the stat of the current item completes.  A directory
\* is walked (when recursive), a file is scanned, an item that cannot be
\* accessed is passed over; the loop then runs on to the next await.
ScanDirItem(d) ==
    /\ tasks[d].kind = "dir"
    /\ tasks[d].pc = "item"
    /\ LET itemPath == PathJoin(d, tasks[d].items[tasks[d].idx])
           pushed   == IF StatError(itemPath) # "" THEN IdleTask
                       ELSE ItemTask(itemPath, tasks[d].recursive)
           k        == NextItem(guardian.options, d, tasks[d].items,
                                tasks[d].idx + 1)
       IN  /\ tasks' =
                [tasks EXCEPT
                   ![d] = [@ EXCEPT
                      !.children = IF pushed.kind = "none" THEN @
                                   ELSE Append(@, itemPath),
                      !.idx = k,
                      !.pc = IF k > Len(tasks[d].items) THEN "join"
                             ELSE "item"],
                   ![itemPath] = IF pushed.kind = "none" THEN @ ELSE pushed]
           /\ scanned' = IF pushed.kind = "file"
                         THEN scanned \cup {itemPath} ELSE scanned
    /\ UNCHANGED <<config, input, pc, guardian, allFiles, scanIndex, findings, listed,
                   warnings, ignoreResult, exitCode, first>>

\* results.flat() of the results of Promise.all(tasks), which are in the
\* order of tasks.
FlatResults(results) == Flat(results)

\* scanDirectory(d): every task of Promise.all(tasks) is done.
ScanDirJoin(d) ==
    /\ tasks[d].kind = "dir"
    /\ tasks[d].pc = "join"
    /\ \A c \in 1..Len(tasks[d].children) :
          tasks[tasks[d].children[c]].pc = "done"
    /\ tasks' = [tasks EXCEPT ![d] =
          Done(@, FlatResults([c \in 1..Len(tasks[d].children) |->
                                  tasks[tasks[d].children[c]].result]),
               "", "")]
    /\ UNCHANGED <<config, input, pc, guardian, allFiles, scanIndex, findings, listed,
                   scanned, warnings, ignoreResult, exitCode, first>>

(***************************************************************************)
(* The specification                                                       *)
(***************************************************************************)
Next ==
    \/ MainInfo
    \/ Construct
    \/ ScanAll
    \/ ScanTargets
    \/ LoopCall
    \/ LoopResume
    \/ Staged
    \/ StagedFallback
    \/ StagedStep
    \/ StagedEnd
    \/ DirReturned
    \/ Report
    \/ LibScanDirectory
    \/ LibScanFile
    \/ FileReturned
    \/ LibShouldIgnoreFile
    \/ \E p \in AllPaths : ScanFileStat(p)
    \/ \E p \in AllPaths : ScanFileRead(p)
    \/ \E p \in AllPaths : ScanDirReaddir(p)
    \/ \E p \in AllPaths : ScanDirItem(p)
    \/ \E p \in AllPaths : ScanDirJoin(p)

Spec == Init /\ [][Next]_vars

(***************************************************************************)
(* Sequential and concurrent scan of one directory, one after the other:   *)
(* main with the directory as its only path (collectFiles, then scanFile   *)
(* file by file), then the library's scanDirectory on the same directory   *)
(* with the same guardian.                                                 *)
(***************************************************************************)
\* The directories both scans start from.
StartDirs == {Cwd, PathDist, PathGit, PathOut}

InitEquiv == InitWith({Input("targets", <<d>>, TRUE, TRUE) : d \in StartDirs})

\* The sequential run is over: its findings are kept, and the same
\* directory is given to scanDirectory.
SecondRun ==
    /\ pc = "exit"
    /\ ~first.done
    /\ first' = [done |-> TRUE, findings |-> findings]
    /\ input' = Input("scanDirectory", input.args, TRUE, TRUE)
    /\ pc' = "main"
    /\ findings' = <<>>
    /\ tasks' = [p \in AllPaths |-> IdleTask]
    /\ UNCHANGED <<config, guardian, allFiles, scanIndex, listed, scanned,
                   warnings, ignoreResult, exitCode>>

NextEquiv ==
    \/ Construct
    \/ ScanTargets
    \/ LoopCall
    \/ LoopResume
    \/ Report
    \/ SecondRun
    \/ LibScanDirectory
    \/ DirReturned
    \/ \E p \in AllPaths : ScanFileStat(p)
    \/ \E p \in AllPaths : ScanFileRead(p)
    \/ \E p \in AllPaths : ScanDirReaddir(p)
    \/ \E p \in AllPaths : ScanDirItem(p)
    \/ \E p \in AllPaths : ScanDirJoin(p)

SpecEquiv == InitEquiv /\ [][NextEquiv]_vars

(***************************************************************************)
(* Properties                                                              *)
(***************************************************************************)
Built == guardian.state = "ok"

Returned(mode) == pc = "returned" /\ input.mode = mode

\* C1: whatever options are given, the ignore lists of the guardian begin
\* with the built-in defaults ('.git/', 'node_modules/', '.env.example';
\* the six default extensions), the user's entries following them.
C1_DefaultsComeFirst ==
    Built =>
        /\ IsPrefixOf(DefaultIgnoredFiles, guardian.options.ignoredFiles)
        /\ IsPrefixOf(DefaultIgnoredExtensions,
                      guardian.options.ignoredExtensions)

\* C2: in every scanning mode of the command line (--scan-all, paths,
\* staged files), scanFile is called only on paths shouldIgnoreFile is
\* false of.
C2_ScannedOnlyUnignored ==
    (Built /\ input.mode \in ScanModes) =>
        \A p \in scanned : ~ShouldIgnoreFile(guardian.options, p)

\* Whether a path lies outside the project root: its relative path is
\* empty or begins with '..'.
OutsideRoot(filePath) ==
    LET rel == Relative(Cwd, Resolve(filePath))
    IN  rel = <<>> \/ StartsWith(rel, <<".", ".">>)

\* Whether the normalized absolute path ends with an ignored extension.
HasIgnoredExtension(options, filePath) ==
    \E k \in 1..Len(options.ignoredExtensions) :
        EndsWith(ToLowerCase(Slashes(Resolve(filePath))),
                 ToLowerCase(options.ignoredExtensions[k]))

\* C3: shouldIgnoreFile of a path outside the project root is true exactly
\* when the path ends, whatever the case, with an ignored extension.
C3_OutsideRootByExtension ==
    (Returned("shouldIgnoreFile") /\ OutsideRoot(input.args[1])) =>
        (ignoreResult <=> HasIgnoredExtension(guardian.options, input.args[1]))

\* The matches [index, text] among the findings of detector `name`.
ReportedMatches(result, name) ==
    {[index |-> result[k].index, text |-> result[k].fullMatch] :
        k \in {n \in 1..Len(result) : result[n].pattern = name}}

\* All matches of a '/pattern/flags' string under its flags, found globally.
MatchesUnderFlags(str, content) ==
    SeqToSet(MatchAll(NewRegExp(DelimitedBody(str),
                                DelimitedFlags(str) \o <<"g">>),
                      content))

\* A scanFile call that read the file and matched the detectors.
ScanCompleted(p) ==
    /\ tasks[p].kind = "file"
    /\ tasks[p].pc = "done"
    /\ tasks[p].failed = NoFailure
    /\ FsEntry(p).size <= SizeLimit

\* C4: the matches scanFile reports for a custom detector given as a
\* '/pattern/flags' string are all the matches of the pattern under those
\* flags.
C4_CustomFlagsInEffect ==
    Built =>
        \A p \in AllPaths :
            ScanCompleted(p) =>
                \A k \in 1..Len(guardian.options.customPatterns) :
                    LET cp == guardian.options.customPatterns[k]
                    IN  (cp.isString /\ IsDelimited(cp.str)) =>
                            ReportedMatches(tasks[p].result, cp.name)
                              = MatchesUnderFlags(cp.str, FsEntry(p).content)

\* C5: a scanFile call that failed at stat or at the read returns no
\* findings, with a warning unless the failure is ENOENT, and with none
\* when it is.
C5_FailureWarnsUnlessNotFound ==
    \A p \in AllPaths :
        (tasks[p].kind = "file" /\ tasks[p].pc = "done"
           /\ tasks[p].failed.step \in {"stat", "read"}) =>
            /\ tasks[p].result = <<>>
            /\ (tasks[p].failed.code # "ENOENT")
                 <=> (Warning("scanFile", p) \in warnings)

\* C6: readdir is never called on a directory shouldIgnoreFile is true of,
\* the directory a walk starts from included.
C6_IgnoredDirectoryNeverListed ==
    Built => \A d \in listed : ~ShouldIgnoreFile(guardian.options, d)

\* C7: on the same directory with the same guardian, the sequential scan
\* and scanDirectory return the same set of findings.
C7_SameFindingSet ==
    (first.done /\ pc = "returned") =>
        SeqToSet(first.findings) = SeqToSet(findings)

\* The place of detector `name` in this.patterns.
DetectorIndex(name) ==
    CHOOSE k \in 1..Len(guardian.patterns) : guardian.patterns[k].name = name

\* Encounter order of two findings of one scan: by detector, then by the
\* position of the match.
Before(x, y) ==
    \/ DetectorIndex(x.pattern) < DetectorIndex(y.pattern)
    \/ x.pattern = y.pattern /\ x.index < y.index

\* The findings of file f in list L, in the order of L.
OfFile(L, f) == SelectSeq(L, LAMBDA x : x.file = f)

RECURSIVE OrderedPrefixLen(_, _)
\* The length of the longest prefix of S, from its first n elements on,
\* that is in encounter order.
OrderedPrefixLen(S, n) ==
    IF n < Len(S) /\ Before(S[n], S[n + 1])
    THEN OrderedPrefixLen(S, n + 1) ELSE n

\* S is one list in encounter order, or that list several times over (a
\* file scanned several times).
OrderedBlocks(S) ==
    S = <<>> \/
    LET n == OrderedPrefixLen(S, 1)
    IN  /\ Len(S) % n = 0
        /\ \A a \in 1..Len(S) : S[a] = S[((a - 1) % n) + 1]

KeepsFileOrder(L) ==
    \A f \in {L[a].file : a \in 1..Len(L)} : OrderedBlocks(OfFile(L, f))

\* C8: in every list of findings (the one returned to main or the caller,
\* and the result of every scanFile and scanDirectory call), the findings
\* of one file are in encounter order: by detector in the order of
\* this.patterns, then by position of the match.
C8_FileOrderKept ==
    Built =>
        /\ KeepsFileOrder(findings)
        /\ \A p \in AllPaths : KeepsFileOrder(tasks[p].result)

\* scanDirectory of the project root returned the findings of several
\* files, those of a.js from two detectors, in other than line order.
C8_Witness ==
    /\ Returned("scanDirectory")
    /\ input.args[1] = Cwd
    /\ Cardinality({findings[a].file : a \in 1..Len(findings)}) >= 3
    /\ \E a, b \in 1..Len(findings) :
          /\ a < b
          /\ findings[a].file = findings[b].file
          /\ findings[a].pattern # findings[b].pattern
          /\ findings[a].line > findings[b].line
    /\ \E a, b \in 1..Len(findings) :
          /\ a < b
          /\ findings[a].file = findings[b].file
          /\ findings[a].pattern = findings[b].pattern

StarLog == <<"*", ".", "l", "o", "g">>

\* No rule but '*.log' and no extension is true of the path.
OnlyStarLogApplies(options, filePath) ==
    LET rel == ToLowerCase(Slashes(Relative(Cwd, Resolve(filePath))))
    IN  /\ \A k \in 1..Len(options.ignoredFiles) :
              options.ignoredFiles[k] # StarLog =>
                 ~IgnoredByRule(options.ignoredFiles[k], rel,
                                FilterNonEmpty(Split(rel, "/")))
        /\ ~HasIgnoredExtension(options, filePath)

\* C9: with the rule '*.log', shouldIgnoreFile is true of debug.log and of
\* logs/today.log, and false of logfile.txt when no other rule and no
\* extension applies to it.
C9_WildcardLog ==
    (Returned("shouldIgnoreFile")
       /\ SeqIncludes(guardian.options.ignoredFiles, StarLog)) =>
        /\ input.args[1] \in { <<"d", "e", "b", "u", "g", ".", "l", "o", "g">>, <<"l", "o", "g", "s", "/", "t", "o", "d", "a", "y", ".", "l", "o", "g">> }
             => ignoreResult
        /\ (input.args[1] = <<"l", "o", "g", "f", "i", "l", "e", ".", "t", "x", "t">>
              /\ OnlyStarLogApplies(guardian.options, input.args[1]))
             => ~ignoreResult

\* shouldIgnoreFile returned true of logs/today.log under the rule '*.log'.
C9_Witness ==
    /\ Returned("shouldIgnoreFile")
    /\ SeqIncludes(guardian.options.ignoredFiles, StarLog)
    /\ input.args[1] = <<"l", "o", "g", "s", "/", "t", "o", "d", "a", "y", ".", "l", "o", "g">>
    /\ ignoreResult

\* The configuration holds a custom pattern that does not compile.
Malformed ==
    \E k \in 1..Len(OrEmpty(config.customPatterns)) :
        ~CompileCustom(config.customPatterns.val[k]).ok

\* C10: with a custom pattern that does not compile, the constructor
\* throws before anything is scanned or listed: no guardian holds a
\* registry without the pattern, and a run that constructs one ends there.
C10_MalformedPatternStopsRun ==
    Malformed =>
        /\ scanned = {}
        /\ listed = {}
        /\ ~Built
        /\ pc \in {"start", "crashed", "exit"}
        /\ pc = "exit" => input.mode = "info"

\* A --scan-all run ended by the exception of the constructor.
C10_Witness ==
    /\ Malformed
    /\ input.mode = "scanAll"
    /\ pc = "crashed"
    /\ guardian.state = "threw"

\* C11: the size guard of scanFile is exact.  A file of 1048576 bytes or
\* less whose stat succeeded is read and matched (its result is what the
\* detectors find in its content, unless the read itself failed); a file
\* of 1048577 bytes or more is never read, and its scanFile call returns
\* no findings, with no failure and no warning.
C11_SizeGuardExact ==
    Built =>
        \A p \in AllPaths :
            (tasks[p].kind = "file" /\ StatError(p) = "") =>
                IF FsEntry(p).size >= 1048577
                THEN /\ tasks[p].pc # "read"
                     /\ tasks[p].pc = "done" =>
                           /\ tasks[p].result = <<>>
                           /\ tasks[p].failed = NoFailure
                           /\ Warning("scanFile", p) \notin warnings
                ELSE /\ FsEntry(p).size <= 1048576
                     /\ tasks[p].pc = "done" =>
                           \/ tasks[p].failed.step = "read"
                           \/ /\ tasks[p].failed = NoFailure
                              /\ tasks[p].result
                                   = ScanTable[guardian.patterns, p]

\* One run scanned a.js, of exactly 1048576 bytes, and found its keys, and
\* skipped big.js, of 1048577 bytes, which holds a key as well.
C11_Witness ==
    /\ FsEntry(PathA).size = 1048576
    /\ tasks[PathA].kind = "file" /\ tasks[PathA].pc = "done"
    /\ tasks[PathA].result # <<>>
    /\ FsEntry(PathBig).size = 1048577
    /\ FsEntry(PathBig).content # <<>>
    /\ tasks[PathBig].kind = "file" /\ tasks[PathBig].pc = "done"
    /\ tasks[PathBig].result = <<>>
    /\ warnings = {}

=============================================================================
